---------------------------- MODULE Spec2Model ----------------------------
(***************************************************************************)
(* Temperature converter (task 3/converter-script.js).                     *)
(*                                                                         *)
(* The page's script reads a text field and two radio groups, validates,  *)
(* converts through Celsius in IEEE-754 double arithmetic, rounds with     *)
(* Math.round(x * 100) / 100 and writes the result card and one of two     *)
(* message banners.                                                        *)
(*                                                                         *)
(* JavaScript Numbers are modelled bit-exactly: a finite double is a sign, *)
(* a 53-bit significand and a binary exponent, and every arithmetic        *)
(* operator rounds its exact result to nearest, ties to even.  TLC's       *)
(* integers are 32 bits wide, so significands are kept as little-endian    *)
(* sequences of 15-bit limbs.                                              *)
(***************************************************************************)
EXTENDS Integers, Sequences, FiniteSets, TLC

(***************************************************************************)
(* Natural numbers of arbitrary size: little-endian limbs, no high zero    *)
(* limb, zero is the empty sequence.                                       *)
(***************************************************************************)
LimbBits == 15

Base == 2^LimbBits

Limb(a, i) == IF i <= Len(a) THEN a[i] ELSE 0

RECURSIVE BTrim(_)
BTrim(a) ==
    IF a = <<>> THEN <<>>
    ELSE IF a[Len(a)] = 0 THEN BTrim(SubSeq(a, 1, Len(a) - 1))
    ELSE a

RECURSIVE BAddRec(_, _, _, _)
BAddRec(a, b, i, carry) ==
    IF i > Len(a) /\ i > Len(b)
    THEN (IF carry = 0 THEN <<>> ELSE <<carry>>)
    ELSE LET s == Limb(a, i) + Limb(b, i) + carry
         IN  <<s % Base>> \o BAddRec(a, b, i + 1, s \div Base)

BAdd(a, b) == BAddRec(a, b, 1, 0)

RECURSIVE BSubRec(_, _, _, _)
BSubRec(a, b, i, borrow) ==
    IF i > Len(a) THEN <<>>
    ELSE LET s == Limb(a, i) - Limb(b, i) - borrow
         IN  IF s < 0
             THEN <<s + Base>> \o BSubRec(a, b, i + 1, 1)
             ELSE <<s>> \o BSubRec(a, b, i + 1, 0)

\* a - b for a >= b
BSub(a, b) == BTrim(BSubRec(a, b, 1, 0))

RECURSIVE BCmpRec(_, _, _)
BCmpRec(a, b, i) ==
    IF i = 0 THEN 0
    ELSE IF a[i] < b[i] THEN -1
    ELSE IF a[i] > b[i] THEN 1
    ELSE BCmpRec(a, b, i - 1)

\* -1, 0, 1 as a < b, a = b, a > b
BCmp(a, b) ==
    IF Len(a) < Len(b) THEN -1
    ELSE IF Len(a) > Len(b) THEN 1
    ELSE BCmpRec(a, b, Len(a))

RECURSIVE BMulRec(_, _, _, _)
BMulRec(a, c, i, carry) ==
    IF i > Len(a)
    THEN (IF carry = 0 THEN <<>> ELSE <<carry>>)
    ELSE LET s == a[i] * c + carry
         IN  <<s % Base>> \o BMulRec(a, c, i + 1, s \div Base)

\* a * c for a small c (0 <= c < Base)
BMulSmall(a, c) == IF c = 0 THEN <<>> ELSE BMulRec(a, c, 1, 0)

RECURSIVE BDivRec(_, _, _, _)
BDivRec(a, d, i, r) ==
    IF i = 0 THEN [q |-> <<>>, r |-> r]
    ELSE LET cur  == r * Base + a[i]
             rest == BDivRec(a, d, i - 1, cur % d)
         IN  [q |-> rest.q \o <<cur \div d>>, r |-> rest.r]

\* quotient and remainder of a by a small d (0 < d < Base)
BDivSmall(a, d) ==
    LET x == BDivRec(a, d, Len(a), 0) IN [q |-> BTrim(x.q), r |-> x.r]

RECURSIVE SmallBitLen(_)
SmallBitLen(n) == IF n = 0 THEN 0 ELSE 1 + SmallBitLen(n \div 2)

BitLen(a) ==
    IF a = <<>> THEN 0
    ELSE LimbBits * (Len(a) - 1) + SmallBitLen(a[Len(a)])

\* a * 2^n
BShl(a, n) ==
    IF a = <<>> THEN <<>>
    ELSE BMulSmall([i \in 1..(n \div LimbBits) |-> 0] \o a, 2^(n % LimbBits))

\* floor(a / 2^n)
BShr(a, n) ==
    IF n \div LimbBits >= Len(a) THEN <<>>
    ELSE BDivSmall(SubSeq(a, (n \div LimbBits) + 1, Len(a)), 2^(n % LimbBits)).q

BIsOdd(a) == a # <<>> /\ a[1] % 2 = 1

RECURSIVE BFromNat(_)
BFromNat(n) == IF n = 0 THEN <<>> ELSE <<n % Base>> \o BFromNat(n \div Base)

(***************************************************************************)
(* IEEE-754 binary64.  A Number is NaN, an infinity, or (-1)^neg * man *   *)
(* 2^exp with man = 0 (exp = 0), 2^52 <= man < 2^53, or a subnormal        *)
(* (man < 2^52, exp = MinExp).                                             *)
(***************************************************************************)
Precision == 53

MinExp == -1074

MaxExp == 971

NaN == [cls |-> "nan", neg |-> FALSE, man |-> <<>>, exp |-> 0]

Infinity(neg) == [cls |-> "inf", neg |-> neg, man |-> <<>>, exp |-> 0]

Zero(neg) == [cls |-> "fin", neg |-> neg, man |-> <<>>, exp |-> 0]

Finite(neg, man, exp) == [cls |-> "fin", neg |-> neg, man |-> man, exp |-> exp]

IsZero(x) == x.cls = "fin" /\ x.man = <<>>

\* n divided by every divisor of ds in turn: the quotient floor(n / product)
\* and whether the division left a remainder
RECURSIVE BDivAll(_, _, _)
BDivAll(n, ds, inexact) ==
    IF ds = <<>> THEN [q |-> n, inexact |-> inexact]
    ELSE LET qr == BDivSmall(n, Head(ds))
         IN  BDivAll(qr.q, Tail(ds), inexact \/ qr.r # 0)

RECURSIVE SumBitLen(_)
SumBitLen(ds) == IF ds = <<>> THEN 0 ELSE SmallBitLen(Head(ds)) + SumBitLen(Tail(ds))

Max(a, b) == IF a > b THEN a ELSE b

PackNormal(neg, m, e) ==
    IF e > MaxExp THEN Infinity(neg) ELSE Finite(neg, m, e)

\* a rounded significand m (at most 2^Precision) and its exponent, as a Number
Pack(neg, m, e) ==
    IF m = <<>> THEN Zero(neg)
    ELSE IF BitLen(m) > Precision THEN PackNormal(neg, BShr(m, 1), e + 1)
    ELSE PackNormal(neg, m, e)

\* ties to even: c compares the bits dropped with one half
RoundsUp(c, inexact, top) == c > 0 \/ (c = 0 /\ (inexact \/ BIsOdd(top)))

\* q with its s low bits dropped (top is what stays) and rounded
RoundTop(neg, top, q, inexact, e1, s) ==
    Pack(neg,
         IF RoundsUp(BCmp(BSub(q, BShl(top, s)), BShl(<<1>>, s - 1)),
                     inexact, top)
         THEN BAdd(top, <<1>>) ELSE top,
         e1 + s)

RoundShift(neg, q, inexact, e1, s) ==
    RoundTop(neg, BShr(q, s), q, inexact, e1, s)

\* (q + a fraction, nonzero iff inexact) * 2^e1 rounded to Precision bits,
\* to fewer where the exponent would fall below MinExp
RoundQuotient(neg, qr, e1) ==
    RoundShift(neg, qr.q, qr.inexact, e1,
               Max(MinExp - e1, BitLen(qr.q) - Precision))

RoundScaled(neg, n, ds, e, k) ==
    RoundQuotient(neg, BDivAll(BShl(n, k), ds, FALSE), e - k)

\* The double nearest to (-1)^neg * (n / d) * 2^e, ties to even; n a big
\* natural, d the product of the small positive divisors ds.  n is first
\* scaled by a power of two so that the quotient keeps Precision + 2 bits.
RoundToDouble(neg, n, ds, e) ==
    IF n = <<>> THEN Zero(neg)
    ELSE RoundScaled(neg, n, ds, e,
                     Max(0, Precision + 2 + SumBitLen(ds) - BitLen(n)))

Negate(x) == [x EXCEPT !.neg = ~x.neg]

\* a * 2^e and b * 2^e with their signs, added
AddAligned(xneg, a, yneg, b, c, e) ==
    IF xneg = yneg THEN RoundToDouble(xneg, BAdd(a, b), <<>>, e)
    ELSE IF c = 0 THEN Zero(FALSE)
    ELSE IF c > 0 THEN RoundToDouble(xneg, BSub(a, b), <<>>, e)
    ELSE RoundToDouble(yneg, BSub(b, a), <<>>, e)

AddCompared(xneg, a, yneg, b, e) ==
    AddAligned(xneg, a, yneg, b, BCmp(a, b), e)

AddAt(x, y, e) ==
    AddCompared(x.neg, BShl(x.man, x.exp - e), y.neg, BShl(y.man, y.exp - e), e)

\* x + y on Numbers (the + and - of lines 118, 122, 144, 148)
FAdd(x, y) ==
    IF x.cls = "nan" \/ y.cls = "nan" THEN NaN
    ELSE IF x.cls = "inf"
         THEN (IF y.cls = "inf" /\ y.neg # x.neg THEN NaN ELSE x)
    ELSE IF y.cls = "inf" THEN y
    ELSE IF IsZero(x) /\ IsZero(y) THEN Zero(x.neg /\ y.neg)
    ELSE IF IsZero(x) THEN y
    ELSE IF IsZero(y) THEN x
    ELSE AddAt(x, y, IF x.exp < y.exp THEN x.exp ELSE y.exp)

FSub(x, y) == FAdd(x, Negate(y))

\* x * c for an integer literal c > 0 (the * 5, * 9, * 100 of lines 69, 118, 144)
FMul(x, c) ==
    IF x.cls # "fin" THEN x
    ELSE RoundToDouble(x.neg, BMulSmall(x.man, c), <<>>, x.exp)

\* x / c for an integer literal c > 0 (the / 9, / 5, / 100 of lines 69, 118, 144)
FDiv(x, c) ==
    IF x.cls # "fin" THEN x
    ELSE RoundToDouble(x.neg, x.man, <<c>>, x.exp)

\* floor(m / 2^s + 1/2)
HalfUp(m, s) == BShr(BAdd(m, BShl(<<1>>, s - 1)), s)

\* ceiling(m / 2^s - 1/2), 0 when that is not positive
HalfDown(m, s) ==
    IF BCmp(BShl(m, 1), BShl(<<1>>, s)) <= 0 THEN <<>>
    ELSE BShr(BAdd(BSub(BShl(m, 1), BShl(<<1>>, s)),
                   BSub(BShl(<<1>>, s + 1), <<1>>)),
              s + 1)

\* Math.round with a tie rounded away from zero, below zero as above it
MathRoundHalfAway(x) ==
    IF x.cls # "fin" \/ IsZero(x) \/ x.exp >= 0 THEN x
    ELSE RoundToDouble(x.neg, HalfUp(x.man, 0 - x.exp), <<>>, 0)

\* Math.round: the nearest integer, a tie towards +Infinity; -0 for
\* -0.5 <= x < 0.
MathRound(x) ==
    IF x.cls # "fin" \/ IsZero(x) \/ x.exp >= 0 THEN x
    ELSE IF x.neg THEN RoundToDouble(TRUE, HalfDown(x.man, 0 - x.exp), <<>>, 0)
    ELSE RoundToDouble(FALSE, HalfUp(x.man, 0 - x.exp), <<>>, 0)

(***************************************************************************)
(* Strings are sequences of one-character strings.                         *)
(***************************************************************************)
Digits == <<"0", "1", "2", "3", "4", "5", "6", "7", "8", "9">>

IsDigit(c) == \E i \in 1..10 : Digits[i] = c

DigitVal(c) == (CHOOSE i \in 1..10 : Digits[i] = c) - 1

CharAt(s, i) == IF i >= 1 /\ i <= Len(s) THEN s[i] ELSE ""

RECURSIVE SkipWhiteSpace(_, _)
SkipWhiteSpace(s, i) ==
    IF CharAt(s, i) = " " THEN SkipWhiteSpace(s, i + 1) ELSE i

\* the index after the run of digits that starts at i
RECURSIVE DigitsEnd(_, _)
DigitsEnd(s, i) == IF IsDigit(CharAt(s, i)) THEN DigitsEnd(s, i + 1) ELSE i

\* digits s[i..j-1], skipping a "." among them, as a big natural, on top of acc
RECURSIVE DigitsValue(_, _, _, _)
DigitsValue(s, i, j, acc) ==
    IF i >= j THEN acc
    ELSE IF s[i] = "." THEN DigitsValue(s, i + 1, j, acc)
    ELSE DigitsValue(s, i + 1, j,
             BAdd(BMulSmall(acc, 10), BFromNat(DigitVal(s[i]))))

RECURSIVE SmallDigitsValue(_, _, _, _)
SmallDigitsValue(s, i, j, acc) ==
    IF i >= j THEN acc
    ELSE SmallDigitsValue(s, i + 1, j, acc * 10 + DigitVal(s[i]))

RECURSIVE BMulPow10(_, _)
BMulPow10(a, n) == IF n = 0 THEN a ELSE BMulPow10(BMulSmall(a, 10), n - 1)

\* The longest prefix of s (after leading white space) that is a
\* StrDecimalLiteral, as what it denotes: the sign, the digits as a natural
\* and the power of ten; ok = FALSE when no prefix is one.  The literal is
\* scanned in the grammar's order: sign at i0, digits from i1 to j, the
\* fraction to k, the exponent's digits from q to r.
NoLiteral == [ok |-> FALSE, inf |-> FALSE, neg |-> FALSE, man |-> <<>>, pow |-> 0]

ExponentValue(s, negative, q, r) ==
    IF negative THEN 0 - SmallDigitsValue(s, q, r, 0)
    ELSE SmallDigitsValue(s, q, r, 0)

ScanExponentDigits(s, neg, i1, k, nfrac, q, r) ==
    [ok  |-> TRUE, inf |-> FALSE, neg |-> neg,
     man |-> DigitsValue(s, i1, k, <<>>),
     pow |-> (IF r > q THEN ExponentValue(s, CharAt(s, k + 1) = "-", q, r)
              ELSE 0) - nfrac]

ScanExponent(s, neg, i1, k, nfrac, q) ==
    ScanExponentDigits(s, neg, i1, k, nfrac, q, DigitsEnd(s, q))

ScanMantissa(s, neg, i1, j, k, nfrac) ==
    IF j = i1 /\ nfrac = 0 THEN NoLiteral
    ELSE IF CharAt(s, k) \in {"e", "E"}
    THEN ScanExponent(s, neg, i1, k, nfrac,
                      IF CharAt(s, k + 1) \in {"+", "-"} THEN k + 2 ELSE k + 1)
    ELSE ScanExponentDigits(s, neg, i1, k, nfrac, k, k)

ScanFraction(s, neg, i1, j, k) == ScanMantissa(s, neg, i1, j, k, k - (j + 1))

ScanInteger(s, neg, i1, j) ==
    IF CharAt(s, j) = "."
    THEN ScanFraction(s, neg, i1, j, DigitsEnd(s, j + 1))
    ELSE ScanMantissa(s, neg, i1, j, j, 0)

ScanUnsigned(s, neg, i1) ==
    IF i1 + 7 <= Len(s) /\
       SubSeq(s, i1, i1 + 7) = <<"I", "n", "f", "i", "n", "i", "t", "y">>
    THEN [ok |-> TRUE, inf |-> TRUE, neg |-> neg, man |-> <<>>, pow |-> 0]
    ELSE ScanInteger(s, neg, i1, DigitsEnd(s, i1))

ScanSigned(s, i0) ==
    ScanUnsigned(s, CharAt(s, i0) = "-",
                 IF CharAt(s, i0) \in {"+", "-"} THEN i0 + 1 ELSE i0)

ScanDecimal(s) == ScanSigned(s, SkipWhiteSpace(s, 1))

\* n tens: the divisors of 10^n
Tens(n) == [i \in 1..n |-> 10]

\* the Number nearest to a scanned literal's value
LiteralValue(d) ==
    IF ~d.ok THEN NaN
    ELSE IF d.inf THEN Infinity(d.neg)
    ELSE IF d.pow >= 0
         THEN RoundToDouble(d.neg, BMulPow10(d.man, d.pow), <<>>, 0)
         ELSE RoundToDouble(d.neg, d.man, Tens(0 - d.pow), 0)

\* parseFloat(string): NaN when no prefix is a decimal literal, else the
\* Number nearest to the literal's value.
parseFloat(s) == LiteralValue(ScanDecimal(s))

isNaN(x) == x.cls = "nan"

\* digits of the natural n, least significant first
RECURSIVE DecimalDigitsRev(_)
DecimalDigitsRev(n) ==
    IF n = <<>> THEN <<>>
    ELSE LET qr == BDivSmall(n, 10)
         IN  <<Digits[qr.r + 1]>> \o DecimalDigitsRev(qr.q)

Reverse(s) == [i \in 1..Len(s) |-> s[Len(s) + 1 - i]]

\* digits, most significant first, with a point before the last f of them
PointText(neg, all, f) ==
    (IF neg THEN <<"-">> ELSE <<>>) \o SubSeq(all, 1, Len(all) - f) \o
    (IF f = 0 THEN <<>> ELSE <<".">> \o SubSeq(all, Len(all) - f + 1, Len(all)))

\* digits, least significant first, padded with zeros to more than f digits
PadDigits(raw, f) ==
    IF Len(raw) > f THEN raw
    ELSE raw \o [i \in 1..(f + 1 - Len(raw)) |-> "0"]

\* the decimal n / 10^f as text: at least one integer digit, f fraction digits
DecimalText(neg, n, f) ==
    PointText(neg, Reverse(PadDigits(DecimalDigitsRev(n), f)), f)

\* floor(|x| * 10^f)
ScaledFloor(x, f) ==
    IF x.exp >= 0 THEN BShl(BMulPow10(x.man, f), x.exp)
    ELSE BShr(BMulPow10(x.man, f), 0 - x.exp)

\* the natural nearest to |x| * 10^f
ScaledNearest(x, f) ==
    IF x.exp >= 0 THEN BShl(BMulPow10(x.man, f), x.exp)
    ELSE HalfUp(BMulPow10(x.man, f), 0 - x.exp)

\* n / 10^f as text when it reads back as x, else the next longer decimal
RECURSIVE ShortestDecimal(_, _)
ShortestFrom(x, n, f) ==
    IF RoundToDouble(x.neg, n, Tens(f), 0) = x
    THEN DecimalText(x.neg, n, f)
    ELSE ShortestDecimal(x, f + 1)

\* the shortest decimal with at least f fraction digits that reads back as x
ShortestDecimal(x, f) == ShortestFrom(x, ScaledNearest(x, f), f)

\* Number::toString (the ${...} of lines 170 and 174).  Numbers from 10^-6
\* up to 10^21 print in fixed notation; the exponent notation of the others
\* is not spelled out and prints as "?".
NumberToString(x) ==
    IF x.cls = "nan" THEN <<"N", "a", "N">>
    ELSE IF x.cls = "inf"
         THEN (IF x.neg THEN <<"-">> ELSE <<>>) \o
              <<"I", "n", "f", "i", "n", "i", "t", "y">>
    ELSE IF IsZero(x) THEN <<"0">>
    ELSE IF ScaledFloor(x, 6) = <<>> \/
            BCmp(ScaledFloor(x, 0), BMulPow10(<<1>>, 21)) >= 0 THEN <<"?">>
    ELSE ShortestDecimal(x, 0)

(***************************************************************************)
(* The conversion (lines 93-153).                                          *)
(***************************************************************************)
Units == {"celsius", "fahrenheit", "kelvin"}

\* the Number a decimal literal n / 10^p of the script denotes
NumericLiteral(n, p) == RoundToDouble(FALSE, BFromNat(n), Tens(p), 0)

Lit32 == NumericLiteral(32, 0)

Lit273p15 == NumericLiteral(27315, 2)

convertToCelsius(value, unit) ==
    CASE unit = "celsius"    -> value
      [] unit = "fahrenheit" -> FDiv(FMul(FSub(value, Lit32), 5), 9)
      [] unit = "kelvin"     -> FSub(value, Lit273p15)
      [] OTHER               -> value

\* convertFromCelsius with the Fahrenheit factor upside down
convertFromCelsiusSwapped(celsius, unit) ==
    CASE unit = "celsius"    -> celsius
      [] unit = "fahrenheit" -> FAdd(FDiv(FMul(celsius, 5), 9), Lit32)
      [] unit = "kelvin"     -> FAdd(celsius, Lit273p15)
      [] OTHER               -> celsius

convertFromCelsius(celsius, unit) ==
    CASE unit = "celsius"    -> celsius
      [] unit = "fahrenheit" -> FAdd(FDiv(FMul(celsius, 9), 5), Lit32)
      [] unit = "kelvin"     -> FAdd(celsius, Lit273p15)
      [] OTHER               -> celsius

convertTo(value, fromUnit, toUnit) ==
    convertFromCelsius(convertToCelsius(value, fromUnit), toUnit)

\* line 69: Math.round(result * 100) / 100
RoundResult(result) == FDiv(MathRound(FMul(result, 100)), 100)

\* U+00B0, the degree sign of lines 170 and 174
DegreeSign == "deg"

getUnitSymbol(unit) ==
    CASE unit = "celsius"    -> <<"C">>
      [] unit = "fahrenheit" -> <<"F">>
      [] unit = "kelvin"     -> <<"K">>
      [] OTHER               -> <<>>

(***************************************************************************)
(* The page.  textContent and the field's value are character sequences;   *)
(* a banner's text is its glyph followed by the message.                   *)
(***************************************************************************)
VARIABLES
    value,           \* temperatureInput.value
    inputUnit,       \* the checked radio of name "input-unit"
    outputUnit,      \* the checked radio of name "output-unit"
    errorMessage,    \* [textContent, show] of #error-message
    successMessage,  \* [textContent, show] of #success-message
    inputDisplay,    \* inputDisplay.textContent
    outputDisplay,   \* outputDisplay.textContent
    last,            \* history: the event handled last
    origin           \* history: the conversion whose result was typed back

vars == <<value, inputUnit, outputUnit, errorMessage, successMessage,
          inputDisplay, outputDisplay, last, origin>>

dom == [value          |-> value,
        inputUnit      |-> inputUnit,
        outputUnit     |-> outputUnit,
        errorMessage   |-> errorMessage,
        successMessage |-> successMessage,
        inputDisplay   |-> inputDisplay,
        outputDisplay  |-> outputDisplay]

CrossMark == "(cross mark) "

CheckMark == "(check mark) "

InvalidNumberText == "Please enter a valid number"

SameUnitText == "Please select different input and output units"

SuccessText == "Temperature converted successfully!"

NoMessage == [textContent |-> <<>>, show |-> FALSE]

\* showError that also empties the result card
showErrorResetResult(d, message) ==
    [d EXCEPT !.errorMessage = [textContent |-> <<CrossMark, message>>,
                                show        |-> TRUE],
              !.inputDisplay = <<>>,
              !.outputDisplay = <<>>]

showError(d, message) ==
    [d EXCEPT !.errorMessage = [textContent |-> <<CrossMark, message>>,
                                show        |-> TRUE]]

showSuccess(d, message) ==
    [d EXCEPT !.successMessage = [textContent |-> <<CheckMark, message>>,
                                  show        |-> TRUE]]

\* clearMessages that does nothing
clearMessagesSkipped(d) == d

\* clearMessages that forgets the success banner
clearMessagesErrorOnly(d) == [d EXCEPT !.errorMessage = NoMessage]

clearMessages(d) ==
    [d EXCEPT !.errorMessage = NoMessage, !.successMessage = NoMessage]

displayResult(d, inputValue, inUnit, outputValue, outUnit) ==
    [d EXCEPT
       !.inputDisplay  = NumberToString(inputValue) \o <<DegreeSign>> \o
                         getUnitSymbol(inUnit),
       !.outputDisplay = NumberToString(outputValue) \o <<DegreeSign>> \o
                         getUnitSymbol(outUnit)]

\* the number check with a range added: nothing below zero
InvalidInputOrNegative(text, temperatureValue) ==
    text = <<>> \/ isNaN(temperatureValue) \/ temperatureValue.neg

\* line 54
InvalidInput(text, temperatureValue) == text = <<>> \/ isNaN(temperatureValue)

\* the unit check left out
SameUnitsUnchecked(inUnit, outUnit) == FALSE

\* line 60
SameUnits(inUnit, outUnit) == inUnit = outUnit

\* lines 65-75, once the input is valid
Convert(d, temperatureValue, result) ==
    showSuccess(displayResult(d, temperatureValue, d.inputUnit,
                              result, d.outputUnit),
                SuccessText)

\* lines 53-75
Validate(d, temperatureValue) ==
    IF InvalidInput(d.value, temperatureValue)
    THEN showError(d, InvalidNumberText)
    ELSE IF SameUnits(d.inputUnit, d.outputUnit)
    THEN showError(d, SameUnitText)
    ELSE Convert(d, temperatureValue,
                 RoundResult(convertTo(temperatureValue,
                                       d.inputUnit, d.outputUnit)))

\* lines 41-45
ReadInput(d) == Validate(d, parseFloat(d.value))

convertTemperature(d) == ReadInput(clearMessages(d))

\* the page after a handler has run
Becomes(d, event) ==
    /\ value' = d.value
    /\ inputUnit' = d.inputUnit
    /\ outputUnit' = d.outputUnit
    /\ errorMessage' = d.errorMessage
    /\ successMessage' = d.successMessage
    /\ inputDisplay' = d.inputDisplay
    /\ outputDisplay' = d.outputDisplay
    /\ last' = event

(***************************************************************************)
(* What the user types.                                                    *)
(***************************************************************************)
\* texts typed into the field under Spec: nothing, no number, a number with
\* a tail, the word Infinity, a number below absolute zero, a plain number
TypedTexts ==
    { <<>>,
      <<"a", "b", "c">>,
      <<"1", "2", "a", "b", "c">>,
      <<"I", "n", "f", "i", "n", "i", "t", "y">>,
      <<"-", "3", "0", "0">>,
      <<"1", "0">> }

Keys == {"Enter", "a"}

\* thousandths on each side of a centre of the grid
GridSpan == 25

\* thousandths: 0, 32, 100 and 273.15
GridCentres == {0, 32000, 100000, 273150}

GridValues == {c + i : c \in GridCentres, i \in (0 - GridSpan)..GridSpan}

\* m thousandths as typed: three fraction digits
GridText(m) == DecimalText(m < 0, BFromNat(IF m < 0 THEN 0 - m ELSE m), 3)

GridTexts == {GridText(m) : m \in GridValues}

\* the text shown in the result card before the first conversion
InitialDisplay == <<"-", "-">>

NoOrigin == [set |-> FALSE, text |-> <<>>, from |-> "celsius", to |-> "celsius"]

(***************************************************************************)
(* The page's events.                                                      *)
(***************************************************************************)
\* the page as loaded: an empty field, one radio of each group checked, no
\* banner
Init ==
    /\ value = <<>>
    /\ inputUnit \in Units
    /\ outputUnit \in Units
    /\ errorMessage = NoMessage
    /\ successMessage = NoMessage
    /\ inputDisplay = InitialDisplay
    /\ outputDisplay = InitialDisplay
    /\ last = "load"
    /\ origin = NoOrigin

\* line 20: a click on the Convert button
Click ==
    /\ Becomes(convertTemperature(dom), "convert")
    /\ UNCHANGED origin

\* lines 23-27: a key pressed in the field
KeyPress ==
    \E key \in Keys :
        /\ IF key = "Enter"
           THEN Becomes(convertTemperature(dom), "convert")
           ELSE Becomes(dom, "key")
        /\ UNCHANGED origin

\* lines 231-234: the field's text edited
Input ==
    \E text \in TypedTexts :
        /\ text # value
        /\ Becomes(clearMessages([dom EXCEPT !.value = text]), "input")
        /\ UNCHANGED origin

\* another radio of the input group checked (no handler)
SelectInputUnit ==
    \E u \in Units :
        /\ u # inputUnit
        /\ Becomes([dom EXCEPT !.inputUnit = u], "select")
        /\ UNCHANGED origin

\* another radio of the output group checked (no handler)
SelectOutputUnit ==
    \E u \in Units :
        /\ u # outputUnit
        /\ Becomes([dom EXCEPT !.outputUnit = u], "select")
        /\ UNCHANGED origin

Next == Click \/ KeyPress \/ Input \/ SelectInputUnit \/ SelectOutputUnit

Spec == Init /\ [][Next]_vars

(***************************************************************************)
(* The conversion over a grid of typed numbers, and the way back: the      *)
(* user types a number of the grid, converts, types the displayed result   *)
(* into the field with the two units exchanged, and converts again.        *)
(***************************************************************************)
\* the number of a result text: all but the degree sign and the symbol
NumberPart(display) == SubSeq(display, 1, Len(display) - 2)

GridInit ==
    /\ value \in GridTexts
    /\ inputUnit \in Units
    /\ outputUnit \in Units
    /\ errorMessage = NoMessage
    /\ successMessage = NoMessage
    /\ inputDisplay = InitialDisplay
    /\ outputDisplay = InitialDisplay
    /\ last = "input"
    /\ origin = NoOrigin

TypeBack ==
    /\ last = "convert"
    /\ successMessage.show
    /\ ~origin.set
    /\ origin' = [set |-> TRUE, text |-> value,
                  from |-> inputUnit, to |-> outputUnit]
    /\ Becomes(clearMessages([dom EXCEPT !.value = NumberPart(outputDisplay),
                                         !.inputUnit = outputUnit,
                                         !.outputUnit = inputUnit]),
               "input")

GridNext == Click \/ TypeBack

GridSpec == GridInit /\ [][GridNext]_vars

(***************************************************************************)
(* What the properties below read off the page.                            *)
(***************************************************************************)
Converted == last = "convert"

Succeeded == Converted /\ successMessage.show

\* the two banners' texts
InvalidNumberBanner == [textContent |-> <<CrossMark, InvalidNumberText>>, show |-> TRUE]

SameUnitBanner == [textContent |-> <<CrossMark, SameUnitText>>, show |-> TRUE]

SuccessBanner == [textContent |-> <<CheckMark, SuccessText>>, show |-> TRUE]

RECURSIVE AllDigits(_, _, _)
AllDigits(s, i, j) == i > j \/ (IsDigit(s[i]) /\ AllDigits(s, i + 1, j))

\* the index of the "." of s, 0 when it has none
RECURSIVE PointAt(_, _)
PointAt(s, i) ==
    IF i > Len(s) THEN 0 ELSE IF s[i] = "." THEN i ELSE PointAt(s, i + 1)

\* digits, or digits "." digits
IsUnsignedDecimal(s) ==
    IF PointAt(s, 1) = 0 THEN Len(s) >= 1 /\ AllDigits(s, 1, Len(s))
    ELSE /\ PointAt(s, 1) >= 2
         /\ PointAt(s, 1) < Len(s)
         /\ AllDigits(s, 1, PointAt(s, 1) - 1)
         /\ AllDigits(s, PointAt(s, 1) + 1, Len(s))

\* the whole text is a finite decimal number: an optional sign, digits and
\* an optional fraction
IsDecimalNumber(s) ==
    /\ s # <<>>
    /\ IsUnsignedDecimal(IF s[1] \in {"+", "-"} THEN Tail(s) ELSE s)

RECURSIVE DigitsInt(_, _, _)
DigitsInt(s, i, acc) ==
    IF i > Len(s) THEN acc
    ELSE IF IsDigit(s[i]) THEN DigitsInt(s, i + 1, acc * 10 + DigitVal(s[i]))
    ELSE DigitsInt(s, i + 1, acc)

FractionLength(s) == IF PointAt(s, 1) = 0 THEN 0 ELSE Len(s) - PointAt(s, 1)

\* the decimal number s times 10^p, for s of at most p fraction digits
ScaledValue(s, p) ==
    (IF s[1] = "-" THEN -1 ELSE 1) * DigitsInt(s, 1, 0) * 10^(p - FractionLength(s))

\* the field's number in thousandths, the displayed result in hundredths
TypedThousandths == ScaledValue(value, 3)

ShownHundredths == ScaledValue(NumberPart(outputDisplay), 2)

\* The conversion in exact arithmetic, in units of 1/45000 degree, from m
\* thousandths: to Celsius, then to the target.
ExactCelsius(m, unit) ==
    CASE unit = "celsius"    -> 45 * m
      [] unit = "fahrenheit" -> 25 * (m - 32000)
      [] unit = "kelvin"     -> 45 * (m - 273150)

ExactTarget(c, unit) ==
    CASE unit = "celsius"    -> c
      [] unit = "fahrenheit" -> (c * 9) \div 5 + 32 * 45000
      [] unit = "kelvin"     -> c + 27315 * 450

\* the exact result in hundredths, a tie rounded up
ExactHundredths(m, from, to) ==
    (ExactTarget(ExactCelsius(m, from), to) + 225) \div 450

SymbolOf(unit) ==
    CASE unit = "celsius" -> "C" [] unit = "fahrenheit" -> "F" [] unit = "kelvin" -> "K"

\* text is a number followed by the degree sign and the unit's symbol
IsResultText(text, unit) ==
    /\ Len(text) >= 3
    /\ text[Len(text) - 1] = DegreeSign
    /\ text[Len(text)] = SymbolOf(unit)
    /\ \/ IsDecimalNumber(NumberPart(text))
       \/ NumberPart(text) \in {NumberToString(Infinity(FALSE)),
                                NumberToString(Infinity(TRUE))}

(***************************************************************************)
(* C1.  A conversion that passes validation shows the exact value of the  *)
(* Celsius-mediated formulas, rounded to two decimals: in hundredths,      *)
(* the exact result of the typed decimal rounded to the nearest, a tie     *)
(* upwards as Math.round does.  (0 C is 32 F, 32 F is 0 C, 0 C is 273.15  *)
(* K and 100 C is 212 F are cases of it.)                                  *)
(***************************************************************************)
C1_ExactRounded ==
    Succeeded =>
        ShownHundredths = ExactHundredths(TypedThousandths, inputUnit, outputUnit)

(***************************************************************************)
(* C2.  A conversion succeeds only when the whole raw text is a finite     *)
(* decimal number; every other text ends in the InvalidNumber banner.      *)
(***************************************************************************)
C2_OnlyNumbersConvert ==
    Converted =>
        /\ successMessage.show => IsDecimalNumber(value)
        /\ ~IsDecimalNumber(value) => errorMessage = InvalidNumberBanner

(***************************************************************************)
(* C3.  With equal units a conversion never succeeds, and for a valid      *)
(* number it ends in the SameUnit banner.                                  *)
(***************************************************************************)
C3_SameUnitRejected ==
    (Converted /\ inputUnit = outputUnit) =>
        /\ ~successMessage.show
        /\ IsDecimalNumber(value) => errorMessage = SameUnitBanner

C3_Witness ==
    /\ Converted
    /\ inputUnit = outputUnit
    /\ IsDecimalNumber(value)
    /\ errorMessage = SameUnitBanner

(***************************************************************************)
(* C4.  The number check comes first: an invalid text with equal units     *)
(* ends in the InvalidNumber banner, never in the SameUnit banner.         *)
(***************************************************************************)
C4_InvalidNumberFirst ==
    (Converted /\ ~IsDecimalNumber(value) /\ inputUnit = outputUnit) =>
        errorMessage = InvalidNumberBanner

(***************************************************************************)
(* C5.  The rounding to two decimals.  Product is result * 100 as line 69  *)
(* computes it; the comparisons with halves of integers are exact.         *)
(***************************************************************************)
Product == FMul(convertTo(parseFloat(value), inputUnit, outputUnit), 100)

\* -1, 0, 1 as man * 2^e is below, equal to or above the natural a
CompareMagnitude(man, e, a) ==
    IF e >= 0 THEN BCmp(BShl(man, e), BFromNat(a))
    ELSE BCmp(man, BShl(BFromNat(a), 0 - e))

\* -1, 0, 1 as the finite Number x is below, equal to or above n / 2
CompareWithHalves(x, n) ==
    IF IsZero(x) THEN (IF n > 0 THEN -1 ELSE IF n < 0 THEN 1 ELSE 0)
    ELSE IF x.neg THEN (IF n >= 0 THEN -1
                        ELSE 0 - CompareMagnitude(x.man, x.exp + 1, 0 - n))
    ELSE IF n <= 0 THEN 1
    ELSE CompareMagnitude(x.man, x.exp + 1, n)

\* x is an integer plus one half
IsHalfway(x) ==
    /\ x.cls = "fin"
    /\ ~IsZero(x)
    /\ x.exp < -1
    /\ BShl(BShr(x.man, (0 - x.exp) - 1), (0 - x.exp) - 1) = x.man
    /\ BIsOdd(BShr(x.man, (0 - x.exp) - 1))

\* C5 as claimed: a product exactly halfway between two integers goes to
\* the one of larger magnitude, below zero as above it.
C5_HalfAwayFromZero ==
    (Succeeded /\ IsHalfway(Product)) =>
        IF Product.neg
        THEN CompareWithHalves(Product, 2 * ShownHundredths + 1) = 0
        ELSE CompareWithHalves(Product, 2 * ShownHundredths - 1) = 0

\* C5 as amended: the shown hundredths k are the product rounded to the
\* nearest integer, a tie towards +Infinity: k - 1/2 <= product < k + 1/2.
C5_HalfTowardsPlusInfinity ==
    Succeeded =>
        /\ CompareWithHalves(Product, 2 * ShownHundredths - 1) >= 0
        /\ CompareWithHalves(Product, 2 * ShownHundredths + 1) < 0

\* a product exactly halfway below zero has been rounded
C5_Witness ==
    /\ Succeeded
    /\ IsHalfway(Product)
    /\ Product.neg
    /\ CompareWithHalves(Product, 2 * ShownHundredths - 1) = 0

(***************************************************************************)
(* C6.  The way back: a number converted from A to B, the shown result     *)
(* converted from B to A, against the number typed first, in thousandths.  *)
(***************************************************************************)
CameBack == Succeeded /\ origin.set

Distance(a, b) == IF a > b THEN a - b ELSE b - a

RoundTripError == Distance(10 * ShownHundredths, ScaledValue(origin.text, 3))

\* C6 as claimed: back within 0.01 of the number typed, for every pair.
C6_RoundTripWithinOneHundredth == CameBack => RoundTripError <= 10

\* C6 as amended: back in the unit typed, within 0.01 from Celsius and from
\* Kelvin, within less than 0.015 from Fahrenheit.
C6_RoundTripTolerance ==
    CameBack =>
        /\ outputUnit = origin.from
        /\ RoundTripError <= (IF origin.from = "fahrenheit" THEN 14 ELSE 10)

\* a number typed in Fahrenheit has come back more than 0.01 away
C6_Witness ==
    /\ CameBack
    /\ origin.from = "fahrenheit"
    /\ RoundTripError > 10

(***************************************************************************)
(* C7.  No range is enforced: a finite decimal number, below absolute      *)
(* zero or not, between two different units converts to a number; the      *)
(* only failures are the two banners.                                      *)
(***************************************************************************)
C7_NoRangeCheck ==
    Converted =>
        /\ errorMessage.show => errorMessage \in {InvalidNumberBanner, SameUnitBanner}
        /\ (IsDecimalNumber(value) /\ inputUnit # outputUnit) =>
               /\ successMessage.show
               /\ ~errorMessage.show
               /\ IsDecimalNumber(NumberPart(outputDisplay))

\* -300 K has been converted
C7_Witness ==
    /\ Succeeded
    /\ value = <<"-", "3", "0", "0">>
    /\ inputUnit = "kelvin"
    /\ IsDecimalNumber(NumberPart(outputDisplay))

(***************************************************************************)
(* C8.  A conversion's outcome depends on its own text and units only:     *)
(* after any history it is the outcome of the same conversion on the page  *)
(* as loaded.                                                              *)
(***************************************************************************)
Outcome(d) ==
    [error   |-> d.errorMessage,
     success |-> d.successMessage,
     result  |-> IF d.successMessage.show THEN d.outputDisplay ELSE <<>>]

LoadedPage(text, from, to) ==
    [value          |-> text,
     inputUnit      |-> from,
     outputUnit     |-> to,
     errorMessage   |-> NoMessage,
     successMessage |-> NoMessage,
     inputDisplay   |-> InitialDisplay,
     outputDisplay  |-> InitialDisplay]

C8_Stateless ==
    Converted =>
        Outcome(dom) = Outcome(convertTemperature(LoadedPage(value, inputUnit, outputUnit)))

\* a conversion has failed on equal units with an earlier result still on
\* the card: it ran after a history of other conversions
C8_Witness ==
    /\ Converted
    /\ errorMessage = SameUnitBanner
    /\ outputDisplay # InitialDisplay

(***************************************************************************)
(* C9.  The banners: never both shown; after a convert trigger exactly one *)
(* (the error on a failed validation, else the success); after an edit of  *)
(* the field none, and both texts empty.                                   *)
(***************************************************************************)
ValidationFails ==
    value = <<>> \/ isNaN(parseFloat(value)) \/ inputUnit = outputUnit

C9_OneBanner ==
    /\ ~(errorMessage.show /\ successMessage.show)
    /\ Converted =>
           /\ errorMessage.show # successMessage.show
           /\ errorMessage.show <=> ValidationFails
           /\ successMessage.show => successMessage = SuccessBanner
    /\ last = "input" => (errorMessage = NoMessage /\ successMessage = NoMessage)

\* the field edited after a successful conversion
C9_Witness ==
    /\ last = "input"
    /\ inputDisplay # InitialDisplay
    /\ errorMessage = NoMessage
    /\ successMessage = NoMessage

(***************************************************************************)
(* C10.  A failed conversion leaves the result card as it was; the card    *)
(* changes only in a successful conversion, which writes both fields as    *)
(* the value, the degree sign and the unit's symbol.                       *)
(***************************************************************************)
C10_FailureKeepsResult ==
    [][ /\ (last' = "convert" /\ errorMessage'.show) =>
               UNCHANGED <<inputDisplay, outputDisplay>>
        /\ (<<inputDisplay, outputDisplay>>' # <<inputDisplay, outputDisplay>>) =>
               (last' = "convert" /\ successMessage'.show)
        /\ (last' = "convert" /\ successMessage'.show) =>
               /\ IsResultText(inputDisplay', inputUnit')
               /\ IsResultText(outputDisplay', outputUnit')
               /\ NumberPart(inputDisplay') = NumberToString(parseFloat(value'))
      ]_vars

\* an earlier result still shown beside the InvalidNumber banner
C10_Witness ==
    /\ Converted
    /\ errorMessage = InvalidNumberBanner
    /\ IsResultText(outputDisplay, "fahrenheit")

=============================================================================
